---- MODULE Spec2Model ----
(***************************************************************************)
(* Model of the asset pipeline's deterministic core:                       *)
(*   - SpriteSheetAnalyzer.extract_frames_smart and its two helpers        *)
(*     (backend/sprite_processing/sprite_sheet_analyzer.py)                *)
(*   - GameGenerator._validate_spawn_point (backend/game_generator.py)     *)
(*   - ComponentCacheManager's character component cache                   *)
(*     (backend/component_cache_manager.py)                                *)
(* Images are finite pixel maps; a pixel is <<c, a>> where c stands for    *)
(* each of the colour bands R, G, B (paste treats every band alike) and a  *)
(* is the alpha band.                                                      *)
(***************************************************************************)
EXTENDS Integers, Sequences, FiniteSets

VARIABLES
    sheet,          \* the RGBA sprite sheet passed to extract_frames_smart
    rows,           \* argument rows
    columns,        \* argument columns
    segpc,          \* "call" before extract_frames_smart runs, "done" after
    outcome,        \* "none" | "ok" (returned) | "error" (raised)
    path,           \* "none" | "cc" (connected components) | "fallback" | "grid"
    boxes,          \* per frame: the rectangle of the sheet that was cropped
    offsets,        \* per frame: <<x_offset, y_offset>> used by paste
    frames,         \* the returned list of canvases
    frame_width,    \* second element of the returned tuple
    frame_height,   \* third element of the returned tuple
    labelled,       \* the component boxes in label order (before the sort)
    component_boxes, \* component_boxes after the sort by left
    detected,       \* component_boxes after the noise filter
    fpc,            \* "call" before the sort and filter run on labelled, "done" after
    platforms,      \* analysis_data['platforms']
    spawn,          \* analysis_data['spawn'] (mutated in place)
    spawn0,         \* the spawn as it was passed in
    vpc,            \* "call" before _validate_spawn_point runs, "done" after
    cache_dir,      \* the cache directory: component key -> files of its directory
    cache_call,     \* the last call made on the cache manager, with its arguments
    cache_ret,      \* what that call returned ("raised" when it raised)
    saved,          \* per (url, num_frames): arguments of the save that last succeeded
    spawn1,         \* the spawn a second _validate_spawn_point call was given
    labeled_array,  \* ndimage.label's array: pixel -> label, 0 for background
    lpc,            \* "call" before the sheet is labelled, "done" after
    apc,            \* position in analyze_walkable_platforms
    analysis_data,  \* analysis_data: its platforms and spawn
    responses,      \* per step: for each request sent, whether the response held a tool call
    decision,       \* the reflection's decision, "none" before it
    total_frames,   \* layout_info['total_frames']
    horizontal_sheet,\* the sheet written by rearrange_to_horizontal
    rearranged_info,\* the layout rearrange_to_horizontal returns
    rpc,            \* "call" before rearrange_to_horizontal runs, "done" (returned) or "raised" after
    level_platforms,\* argument platforms of generate_collectible_positions
    num_collectibles,\* argument num_collectibles
    min_spacing,    \* argument min_spacing
    collectible_positions,\* the positions placed so far (placed_positions holds their x, y)
    attempts,       \* the loop's attempt counter
    gpc,            \* "loop" while the placement loop runs, "done" after the return
    game_dir,       \* one entry's directory of the game cache: file -> number of the save that wrote it, 0 when absent
    save_pc,        \* the file save_game writes next, "idle" outside a call
    save_id,        \* number of save_game calls started
    get_pc,         \* the file get_cached_game reads next, "idle" outside a call
    get_read,       \* what the running get_cached_game has read so far
    get_ret,        \* what the last get_cached_game returned
    exists_ret,     \* what the last exists returned
    exists_seen,    \* the directory as it was when exists looked
    cache_data,     \* CacheManager.cache_data: prompt -> entry
    prompt_call,    \* the last call made on the CacheManager, with its arguments
    prompt_ret,     \* what that call returned
    latest,         \* per prompt: the result of the latest set not yet deleted or cleared
    before          \* latest as it was before the last call

vars == <<sheet, rows, columns, segpc, outcome, path, boxes, offsets, frames,
          frame_width, frame_height, labelled, component_boxes, detected, fpc,
          platforms, spawn, spawn0, vpc, cache_dir, cache_call, cache_ret, saved,
          spawn1, labeled_array, lpc,
          apc, analysis_data, responses, decision,
          total_frames, horizontal_sheet, rearranged_info, rpc,
          level_platforms, num_collectibles, min_spacing, collectible_positions, attempts, gpc,
          game_dir, save_pc, save_id, get_pc, get_read, get_ret, exists_ret, exists_seen,
          cache_data, prompt_call, prompt_ret, latest, before>>

segVars == <<sheet, rows, columns, segpc, outcome, path, boxes, offsets, frames,
             frame_width, frame_height, labelled, component_boxes, detected, fpc>>

spawnVars == <<platforms, spawn, spawn0, vpc, spawn1>>

cacheVars == <<cache_dir, cache_call, cache_ret, saved>>

labelVars == <<labeled_array, lpc>>

analyzeVars == <<apc, analysis_data, responses, decision>>

rearrangeVars == <<total_frames, horizontal_sheet, rearranged_info, rpc>>

collectVars == <<level_platforms, num_collectibles, min_spacing, collectible_positions, attempts, gpc>>

gameVars == <<game_dir, save_pc, save_id, get_pc, get_read, get_ret, exists_ret, exists_seen>>

promptVars == <<cache_data, prompt_call, prompt_ret, latest, before>>

\* what an action of one component leaves alone
exceptSeg == <<spawnVars, cacheVars, labelVars, analyzeVars, rearrangeVars, collectVars, gameVars, promptVars>>

exceptSpawn == <<segVars, cacheVars, labelVars, analyzeVars, rearrangeVars, collectVars, gameVars, promptVars>>

exceptCache == <<segVars, spawnVars, labelVars, analyzeVars, rearrangeVars, collectVars, gameVars, promptVars>>

exceptLabel == <<spawnVars, cacheVars, analyzeVars, rearrangeVars, collectVars, gameVars, promptVars>>

exceptAnalyze == <<segVars, spawnVars, cacheVars, labelVars, rearrangeVars, collectVars, gameVars, promptVars>>

exceptRearrange == <<spawnVars, cacheVars, labelVars, analyzeVars, collectVars, gameVars, promptVars>>

exceptCollect == <<segVars, spawnVars, cacheVars, labelVars, analyzeVars, rearrangeVars, gameVars, promptVars>>

exceptGame == <<segVars, spawnVars, cacheVars, labelVars, analyzeVars, rearrangeVars, collectVars, promptVars>>

exceptPrompt == <<segVars, spawnVars, cacheVars, labelVars, analyzeVars, rearrangeVars, collectVars, gameVars>>

(***************************************************************************)
(* Bounds of the model                                                     *)
(***************************************************************************)
MaxCells == 12

MaxW == 6

MaxH == 4

MaxRows == 2

MaxCols == 3

MaxPasteCells == 4

MaxPlatforms == 2

(***************************************************************************)
(* Generic helpers                                                         *)
(***************************************************************************)
\* Python's None
None == [none |-> TRUE]

\* no call was made yet
NoCall == [op |-> "none"]

Max2(a, b) == IF a >= b THEN a ELSE b

SetMin(S) == CHOOSE m \in S : \A n \in S : m <= n

SetMax(S) == CHOOSE m \in S : \A n \in S : m >= n

RECURSIVE SeqMax(_, _)
SeqMax(s, init) == IF s = <<>> THEN init ELSE SeqMax(Tail(s), Max2(init, Head(s)))

(***************************************************************************)
(* Images (PIL.Image in mode RGBA)                                         *)
(***************************************************************************)
Transparent == <<0, 0>>

Coords(w, h) == (0 .. (w - 1)) \X (0 .. (h - 1))

\* Image.new('RGBA', (w, h), (0, 0, 0, 0))
NewImage(w, h) == [w |-> w, h |-> h, px |-> [p \in Coords(w, h) |-> Transparent]]

PixelAt(img, x, y) ==
    IF x >= 0 /\ x < img.w /\ y >= 0 /\ y < img.h THEN img.px[<<x, y>>] ELSE Transparent

\* Image.crop((left, top, right, bottom))
Crop(img, left, top, right, bottom) ==
    [w |-> right - left, h |-> bottom - top,
     px |-> [p \in Coords(right - left, bottom - top) |->
                PixelAt(img, p[1] + left, p[2] + top)]]

\* Pillow's DIV255: rounded division by 255 in integer arithmetic
Div255(v) == LET t == v + 128 IN ((t \div 256) + t) \div 256

\* one band of Pillow's BLEND8(mask, out, in)
Blend8(mask, old, new) == Div255(old * (255 - mask) + new * mask)

\* the pixel left on the canvas after paste(frame, pos, frame): every band,
\* alpha included, is blended with the frame's own alpha as the mask
BlendPixel(old, new) ==
    <<Blend8(new[2], old[1], new[1]), Blend8(new[2], old[2], new[2])>>

\* canvas.paste(frame, (xo, yo), frame)
Paste(canvas, frame, xo, yo) ==
    [canvas EXCEPT !.px =
        [p \in DOMAIN canvas.px |->
            IF /\ p[1] >= xo /\ p[1] < xo + frame.w
               /\ p[2] >= yo /\ p[2] < yo + frame.h
            THEN BlendPixel(canvas.px[p], frame.px[<<p[1] - xo, p[2] - yo>>])
            ELSE canvas.px[p]]]

\* mutant: the offset rounds up instead of down
CenterOffset_RoundUp(total, part) == (total - part + 1) \div 2

\* canvas = Image.new(...); offsets = (W - w) // 2, (H - h) // 2
CenterOffset(total, part) == (total - part) \div 2

\* mutant: the frame is kept on a canvas of its own size
CenterOnCanvas_OwnSize(frame, W, H) == Paste(NewImage(frame.w, frame.h), frame, 0, 0)

CenterOnCanvas(frame, W, H) ==
    Paste(NewImage(W, H), frame, CenterOffset(W, frame.w), CenterOffset(H, frame.h))

(***************************************************************************)
(* Connected components (scipy.ndimage.label with a 3x3 structure of ones) *)
(***************************************************************************)
AlphaThreshold == 10

\* content_mask = alpha > 10, as the set of content pixel coordinates
ContentMask(img) == {p \in DOMAIN img.px : img.px[p][2] > AlphaThreshold}

\* mutant: structure is the default cross, diagonal neighbours do not connect
Adjacent_Cross(p, q) ==
    \/ p[1] = q[1] /\ p[2] - q[2] \in {-1, 1}
    \/ p[2] = q[2] /\ p[1] - q[1] \in {-1, 1}

\* structure = np.ones((3, 3)): the eight neighbours of a pixel
Adjacent(p, q) ==
    /\ p # q
    /\ p[1] - q[1] \in {-1, 0, 1}
    /\ p[2] - q[2] \in {-1, 0, 1}

RECURSIVE Flood(_, _)
Flood(mask, S) ==
    LET grown == S \cup {q \in mask : \E p \in S : Adjacent(p, q)}
    IN  IF grown = S THEN S ELSE Flood(mask, grown)

\* the first content pixel in C (row-major) scan order
FirstInScan(S) ==
    CHOOSE p \in S : \A q \in S : p[2] < q[2] \/ (p[2] = q[2] /\ p[1] <= q[1])

\* labels 1..n are handed out in scan order of each component's first pixel
RECURSIVE Label(_, _)
Label(remaining, acc) ==
    IF remaining = {} THEN acc
    ELSE LET comp == Flood(remaining, {FirstInScan(remaining)})
         IN  Label(remaining \ comp, Append(acc, comp))

\* area = (max_row - min_row) * (max_col - min_col)
ComponentArea(min_row, max_row, min_col, max_col) ==
    (max_row - min_row) * (max_col - min_col)

\* the dict appended to component_boxes for label i, from the extent of
\* the component's pixels
BoxOfExtent(i, min_row, max_row, min_col, max_col) ==
    [id |-> i, left |-> min_col, right |-> max_col + 1,
     top |-> min_row, bottom |-> max_row + 1,
     area |-> ComponentArea(min_row, max_row, min_col, max_col)]

ComponentBox(comp, i) ==
    BoxOfExtent(i, SetMin({p[2] : p \in comp}), SetMax({p[2] : p \in comp}),
                SetMin({p[1] : p \in comp}), SetMax({p[1] : p \in comp}))

ComponentBoxes(img) ==
    LET comps == Label(ContentMask(img), <<>>)
    IN  [i \in 1 .. Len(comps) |-> ComponentBox(comps[i], i)]

\* list.sort(key=lambda b: b['left']) is stable: equal keys keep their order
RECURSIVE InsertByLeft(_, _)
InsertByLeft(sorted, b) ==
    IF sorted = <<>> THEN <<b>>
    ELSE IF Head(sorted).left <= b.left
         THEN <<Head(sorted)>> \o InsertByLeft(Tail(sorted), b)
         ELSE <<b>> \o sorted

RECURSIVE SortByLeft(_, _)
SortByLeft(todo, acc) ==
    IF todo = <<>> THEN acc
    ELSE SortByLeft(Tail(todo), InsertByLeft(acc, Head(todo)))

\* mutant: the threshold is 0.1% of the largest area
AboveNoise_PerMille(area, max_area) == 1000 * area > max_area

\* b['area'] > max_area * 0.01, in integers
AboveNoise(area, max_area) == 100 * area > max_area

RECURSIVE KeepAboveNoise(_, _)
KeepAboveNoise(bs, max_area) ==
    IF bs = <<>> THEN <<>>
    ELSE IF AboveNoise(Head(bs).area, max_area)
         THEN <<Head(bs)>> \o KeepAboveNoise(Tail(bs), max_area)
         ELSE KeepAboveNoise(Tail(bs), max_area)

NoiseFilter(bs) ==
    IF Len(bs) > 0
    THEN KeepAboveNoise(bs, SetMax({bs[i].area : i \in 1 .. Len(bs)}))
    ELSE bs

\* labeled_array: the label of each pixel, 0 where content_mask is False
LabeledArray(img) ==
    LET comps == Label(ContentMask(img), <<>>)
    IN  [p \in DOMAIN img.px |->
            IF \E i \in 1 .. Len(comps) : p \in comps[i]
            THEN CHOOSE i \in 1 .. Len(comps) : p \in comps[i]
            ELSE 0]

(***************************************************************************)
(* Results of an extraction                                                *)
(***************************************************************************)
Raised(p) ==
    [outcome |-> "error", path |-> p, boxes |-> <<>>, offsets |-> <<>>,
     frames |-> <<>>, fw |-> 0, fh |-> 0,
     labelled |-> <<>>, component_boxes |-> <<>>, detected |-> <<>>]

Rect(l, t, r, b) == [left |-> l, top |-> t, right |-> r, bottom |-> b]

RectW(b) == b.right - b.left

RectH(b) == b.bottom - b.top

\* the two normalisation loops: crop every rectangle, centre it on a canvas
\* of the maximum crop size
Normalized(img, rects, p) ==
    LET n  == Len(rects)
        mw == SeqMax([i \in 1 .. n |-> RectW(rects[i])], 0)
        mh == SeqMax([i \in 1 .. n |-> RectH(rects[i])], 0)
        crop(i) == Crop(img, rects[i].left, rects[i].top, rects[i].right, rects[i].bottom)
    IN  [outcome |-> "ok", path |-> p, boxes |-> rects,
         offsets |-> [i \in 1 .. n |->
                        <<CenterOffset(mw, RectW(rects[i])), CenterOffset(mh, RectH(rects[i]))>>],
         frames |-> [i \in 1 .. n |-> CenterOnCanvas(crop(i), mw, mh)],
         fw |-> mw, fh |-> mh,
         labelled |-> <<>>, component_boxes |-> <<>>, detected |-> <<>>]

(***************************************************************************)
(* _extract_grid_based                                                     *)
(***************************************************************************)
\* mutant: row and column index are swapped
CellOrigin_Transposed(k, cols, cell_width, cell_height) ==
    <<((k - 1) \div cols) * cell_width, ((k - 1) % cols) * cell_height>>

\* (x, y) of the k-th cell appended by "for row ...: for col ...:"
CellOrigin(k, cols, cell_width, cell_height) ==
    <<((k - 1) % cols) * cell_width, ((k - 1) \div cols) * cell_height>>

\* mutant: a cell without content gets an empty region
ContentBounds_NoDefault(cell) ==
    LET rows_with_content == {p[2] : p \in ContentMask(cell)}
        cols_with_content == {p[1] : p \in ContentMask(cell)}
    IN  IF rows_with_content # {} /\ cols_with_content # {}
        THEN Rect(SetMin(cols_with_content), SetMin(rows_with_content),
                  SetMax(cols_with_content) + 1, SetMax(rows_with_content) + 1)
        ELSE Rect(0, 0, 0, 0)

\* (left, top, right, bottom) stored in individual_bounds for one cell
ContentBounds(cell) ==
    LET rows_with_content == {p[2] : p \in ContentMask(cell)}
        cols_with_content == {p[1] : p \in ContentMask(cell)}
    IN  IF rows_with_content # {} /\ cols_with_content # {}
        THEN Rect(SetMin(cols_with_content), SetMin(rows_with_content),
                  SetMax(cols_with_content) + 1, SetMax(rows_with_content) + 1)
        ELSE Rect(0, 0, cell.w, cell.h)

\* cell.crop(bounds) of sheet.crop(cell) is this rectangle of the sheet
CellRect(img, k, cols, cell_width, cell_height) ==
    LET o == CellOrigin(k, cols, cell_width, cell_height)
        b == ContentBounds(Crop(img, o[1], o[2], o[1] + cell_width, o[2] + cell_height))
    IN  Rect(o[1] + b.left, o[2] + b.top, o[1] + b.right, o[2] + b.bottom)

\* mutant: the cell size is rounded up, spreading the remainder over the cells
ExtractGridBased_RoundUpCells(img, r, c, p) ==
    IF r = 0 \/ c = 0 THEN Raised(p)
    ELSE LET cell_width  == (img.w + c - 1) \div c
             cell_height == (img.h + r - 1) \div r
         IN  IF cell_width = 0 \/ cell_height = 0 THEN Raised(p)
             ELSE Normalized(img,
                             [k \in 1 .. r * c |-> CellRect(img, k, c, cell_width, cell_height)],
                             p)

\* "//" by zero raises ZeroDivisionError; alpha.max(axis=...) over a cell with
\* no columns or no rows raises ValueError (zero-size reduction)
ExtractGridBased(img, r, c, p) ==
    IF r = 0 \/ c = 0 THEN Raised(p)
    ELSE LET cell_width  == img.w \div c
             cell_height == img.h \div r
         IN  IF cell_width = 0 \/ cell_height = 0 THEN Raised(p)
             ELSE Normalized(img,
                             [k \in 1 .. r * c |-> CellRect(img, k, c, cell_width, cell_height)],
                             p)

(***************************************************************************)
(* _extract_horizontal_with_gaps                                           *)
(***************************************************************************)
\* component_boxes after line 346: sorted by left, then filtered
SpritesOf(label_boxes) == NoiseFilter(SortByLeft(label_boxes, <<>>))

DetectedSprites(img) == SpritesOf(ComponentBoxes(img))

\* the rectangles cropped by "for box in component_boxes"
SpriteRects(bs) ==
    [i \in 1 .. Len(bs) |-> Rect(bs[i].left, bs[i].top, bs[i].right, bs[i].bottom)]

\* mutant: a count mismatch raises instead of falling back
GapsResult_RaiseOnMismatch(img, expected_frames, sprites) ==
    IF Len(sprites) # expected_frames
    THEN Raised("fallback")
    ELSE Normalized(img, SpriteRects(sprites), "cc")

\* the tuple returned by the function, without the locals kept for inspection
GapsResult(img, expected_frames, sprites) ==
    IF Len(sprites) # expected_frames
    THEN ExtractGridBased(img, 1, expected_frames, "fallback")
    ELSE Normalized(img, SpriteRects(sprites), "cc")

ExtractHorizontalWithGaps(img, expected_frames) ==
    CHOOSE res \in {[GapsResult(img, expected_frames, SpritesOf(lb))
                       EXCEPT !.labelled = lb,
                              !.component_boxes = SortByLeft(lb, <<>>),
                              !.detected = SpritesOf(lb)] :
                    lb \in {ComponentBoxes(img)}} : TRUE

(***************************************************************************)
(* extract_frames_smart                                                    *)
(***************************************************************************)
\* mutant: connected components are tried for every layout
ExtractFramesSmartResult_GapsFirst(img, r, c) ==
    IF r >= 1 THEN ExtractHorizontalWithGaps(img, r * c)
    ELSE ExtractGridBased(img, r, c, "grid")

ExtractFramesSmartResult(img, r, c) ==
    IF r = 1 THEN ExtractHorizontalWithGaps(img, c)
    ELSE ExtractGridBased(img, r, c, "grid")

ExtractFramesSmart ==
    /\ segpc = "call"
    /\ \E res \in {ExtractFramesSmartResult(sheet, rows, columns)} :
           /\ outcome' = res.outcome
           /\ path' = res.path
           /\ boxes' = res.boxes
           /\ offsets' = res.offsets
           /\ frames' = res.frames
           /\ frame_width' = res.fw
           /\ frame_height' = res.fh
           /\ labelled' = res.labelled
           /\ component_boxes' = res.component_boxes
           /\ detected' = res.detected
    /\ segpc' = "done"
    /\ UNCHANGED <<sheet, rows, columns, fpc>>
    /\ UNCHANGED exceptSeg

(***************************************************************************)
(* Inputs of extract_frames_smart                                          *)
(***************************************************************************)
Opaque == <<200, 255>>

SheetPixels == {Transparent, Opaque}

PastePixels == {Transparent, <<200, 10>>, <<200, 11>>, <<200, 128>>, Opaque}

Images(w, h, pixels) == {[w |-> w, h |-> h, px |-> f] : f \in [Coords(w, h) -> pixels]}

Sheets(maxw, maxh, maxcells, pixels) ==
    UNION {Images(d[1], d[2], pixels) :
             d \in {e \in (1 .. maxw) \X (1 .. maxh) : e[1] * e[2] <= maxcells}}

SegIdle ==
    /\ segpc = "idle" /\ sheet = NewImage(0, 0) /\ rows = 0 /\ columns = 0
    /\ outcome = "none" /\ path = "none" /\ boxes = <<>> /\ offsets = <<>>
    /\ frames = <<>> /\ frame_width = 0 /\ frame_height = 0
    /\ labelled = <<>> /\ component_boxes = <<>> /\ detected = <<>> /\ fpc = "idle"

SpawnIdle ==
    /\ vpc = "idle" /\ platforms = <<>>
    /\ spawn = [x |-> 0, y |-> 0] /\ spawn0 = [x |-> 0, y |-> 0]
    /\ spawn1 = [x |-> 0, y |-> 0]

SegCall(sheets) ==
    /\ sheet \in sheets
    /\ rows \in 0 .. MaxRows
    /\ columns \in 0 .. MaxCols
    /\ segpc = "call" /\ outcome = "none" /\ path = "none"
    /\ boxes = <<>> /\ offsets = <<>> /\ frames = <<>>
    /\ frame_width = 0 /\ frame_height = 0
    /\ labelled = <<>> /\ component_boxes = <<>> /\ detected = <<>> /\ fpc = "idle"

(***************************************************************************)
(* The sort, noise filter and count check of _extract_horizontal_with_gaps *)
(* on component lists whose boxes are larger than the sheets above         *)
(***************************************************************************)
MaxComponents == 3

MaxUrls == 2

MaxTotalFrames == 3

MaxCollectibles == 2

MaxSaves == 2

MaxPrompts == 2

\* <<max_row - min_row, max_col - min_col>> of the components drawn: areas
\* 0, 1, 2, 100 and 200
ComponentExtents == {<<0, 3>>, <<1, 1>>, <<1, 2>>, <<10, 10>>, <<10, 20>>}

ComponentStride == 30

\* n components in label order; component i lies in slot slot[i] of the strip
LabelledLists ==
    UNION {{[i \in 1 .. n |->
                BoxOfExtent(i, 0, ext[i][1],
                            ComponentStride * (slot[i] - 1),
                            ComponentStride * (slot[i] - 1) + ext[i][2])] :
              ext \in [1 .. n -> ComponentExtents],
              slot \in {f \in [1 .. n -> 1 .. n] :
                          \A i, j \in 1 .. n : f[i] = f[j] => i = j}} :
           n \in 0 .. MaxComponents}

FilterCall ==
    /\ labelled \in LabelledLists
    /\ columns \in 0 .. MaxCols
    /\ fpc = "call"
    /\ segpc = "idle" /\ sheet = NewImage(0, 0) /\ rows = 1
    /\ outcome = "none" /\ path = "none" /\ boxes = <<>> /\ offsets = <<>>
    /\ frames = <<>> /\ frame_width = 0 /\ frame_height = 0
    /\ component_boxes = <<>> /\ detected = <<>>

\* lines 339-365: sort, filter, compare the count, pick the boxes to crop
FilterComponents ==
    /\ fpc = "call"
    /\ component_boxes' = SortByLeft(labelled, <<>>)
    /\ detected' = SpritesOf(labelled)
    /\ path' = IF Len(SpritesOf(labelled)) # columns THEN "fallback" ELSE "cc"
    /\ boxes' = IF Len(SpritesOf(labelled)) # columns THEN <<>>
                ELSE SpriteRects(SpritesOf(labelled))
    /\ fpc' = "done"
    /\ UNCHANGED <<sheet, rows, columns, segpc, outcome, offsets, frames,
                   frame_width, frame_height, labelled>>
    /\ UNCHANGED exceptSeg


(***************************************************************************)
(* rearrange_to_horizontal and SpriteSheetBuilder.create_horizontal_sheet  *)
(***************************************************************************)
NoInfo == [rows |-> 0, columns |-> 0, frame_width |-> 0, frame_height |-> 0, total_frames |-> 0]

\* frames[k], ... pasted left to right, frame k at x_offset (k - 1) * fw
RECURSIVE PlaceFrames(_, _, _, _)
PlaceFrames(sprite_sheet, fs, k, fw) ==
    IF k > Len(fs) THEN sprite_sheet
    ELSE PlaceFrames(Paste(sprite_sheet, fs[k], (k - 1) * fw, 0), fs, k + 1, fw)

\* create_horizontal_sheet with spacing 0, for a non-empty list of frames
\* that all have size fw x fh
CreateHorizontalSheet(fs, fw, fh) ==
    PlaceFrames(NewImage(fw * Len(fs), fh), fs, 1, fw)

\* rearranged_info: rows 1, columns total_frames, the extracted frame size
RearrangedInfo(fw, fh, n) ==
    [rows |-> 1, columns |-> n, frame_width |-> fw, frame_height |-> fh, total_frames |-> n]

RearrangeIdle ==
    /\ rpc = "idle" /\ total_frames = 0
    /\ horizontal_sheet = NewImage(0, 0) /\ rearranged_info = NoInfo

RearrangeCall ==
    /\ SegCall(Sheets(MaxPasteCells, MaxPasteCells, MaxPasteCells, SheetPixels))
    /\ total_frames \in 0 .. MaxTotalFrames
    /\ rpc = "call" /\ horizontal_sheet = NewImage(0, 0) /\ rearranged_info = NoInfo

\* rearrange_to_horizontal(image_path, output_path, layout_info): extraction
\* with the layout's rows and columns, then the horizontal sheet; an error
\* of the extraction and the builder's ValueError for no frames propagate
RearrangeToHorizontal ==
    /\ rpc = "call"
    /\ \E res \in {ExtractFramesSmartResult(sheet, rows, columns)} :
           /\ outcome' = res.outcome
           /\ path' = res.path
           /\ boxes' = res.boxes
           /\ offsets' = res.offsets
           /\ frames' = res.frames
           /\ frame_width' = res.fw
           /\ frame_height' = res.fh
           /\ labelled' = res.labelled
           /\ component_boxes' = res.component_boxes
           /\ detected' = res.detected
           /\ IF res.outcome = "ok" /\ res.frames # <<>>
              THEN /\ horizontal_sheet' = CreateHorizontalSheet(res.frames, res.fw, res.fh)
                   /\ rearranged_info' = RearrangedInfo(res.fw, res.fh, total_frames)
                   /\ rpc' = "done"
              ELSE /\ rpc' = "raised"
                   /\ UNCHANGED <<horizontal_sheet, rearranged_info>>
    /\ segpc' = "done"
    /\ UNCHANGED <<sheet, rows, columns, fpc, total_frames>>
    /\ UNCHANGED exceptRearrange

(***************************************************************************)
(* generate_collectible_positions (backend/main.py)                        *)
(***************************************************************************)
CollectMargin == 30

CollectLift == 20

AttemptsPerCollectible == 10

\* mutant: the distance is the sum of the horizontal and vertical distances
TooClose_Manhattan(x, y, placed, spacing) ==
    \E i \in 1 .. Len(placed) :
        LET dx == IF x >= placed[i].x THEN x - placed[i].x ELSE placed[i].x - x
            dy == IF y >= placed[i].y THEN y - placed[i].y ELSE placed[i].y - y
        IN  dx + dy < spacing

\* ((x - placed_x) ** 2 + (y - placed_y) ** 2) ** 0.5 < min_spacing for some
\* placed position, compared on the squares
TooClose(x, y, placed, spacing) ==
    \E i \in 1 .. Len(placed) :
        /\ spacing > 0
        /\ (x - placed[i].x) * (x - placed[i].x) + (y - placed[i].y) * (y - placed[i].y)
              < spacing * spacing

\* mutant: a platform that is too narrow does not use up an attempt
AttemptsAfter_NarrowUncounted(n, platform) ==
    IF platform.width < CollectMargin * 2 THEN n ELSE n + 1

\* attempts += 1 at the top of every iteration
AttemptsAfter(n, platform) == n + 1

LoopGuard ==
    /\ Len(collectible_positions) < num_collectibles
    /\ attempts < num_collectibles * AttemptsPerCollectible

\* platforms around the margin width 60, close enough for spacing to matter
LevelPlatforms ==
    {[x |-> 0, y |-> 100, width |-> 63], [x |-> 3, y |-> 104, width |-> 60],
     [x |-> 0, y |-> 100, width |-> 59]}

LevelPlatformLists == UNION {[1 .. n -> LevelPlatforms] : n \in 1 .. MaxPlatforms}

MinSpacings == {0, 5}

\* the values drawn for sprite_index = random.randint(0, 10)
SpriteIndexes == {0, 10}

CollectIdle ==
    /\ gpc = "idle" /\ level_platforms = <<>> /\ num_collectibles = 0
    /\ min_spacing = 0 /\ collectible_positions = <<>> /\ attempts = 0

CollectCall ==
    /\ level_platforms \in LevelPlatformLists
    /\ num_collectibles \in 0 .. MaxCollectibles
    /\ min_spacing \in MinSpacings
    /\ collectible_positions = <<>> /\ attempts = 0 /\ gpc = "loop"

\* one iteration of the while loop: a random platform, a random x on it,
\* and the position appended unless the platform is narrow or x is too close
PlacementAttempt ==
    /\ gpc = "loop"
    /\ LoopGuard
    /\ \E k \in 1 .. Len(level_platforms) :
          LET platform == level_platforms[k]
          IN  /\ attempts' = AttemptsAfter(attempts, platform)
              /\ IF platform.width < CollectMargin * 2
                 THEN UNCHANGED collectible_positions
                 ELSE \E x \in (platform.x + CollectMargin)
                                 .. (platform.x + platform.width - CollectMargin),
                         sprite_index \in SpriteIndexes :
                        IF TooClose(x, platform.y - CollectLift, collectible_positions, min_spacing)
                        THEN UNCHANGED collectible_positions
                        ELSE collectible_positions' =
                                Append(collectible_positions,
                                       [x |-> x, y |-> platform.y - CollectLift,
                                        sprite_index |-> sprite_index])
    /\ UNCHANGED <<level_platforms, num_collectibles, min_spacing, gpc>>
    /\ UNCHANGED exceptCollect

\* the loop condition fails and the list is returned
ReturnPositions ==
    /\ gpc = "loop"
    /\ ~LoopGuard
    /\ gpc' = "done"
    /\ UNCHANGED <<level_platforms, num_collectibles, min_spacing,
                   collectible_positions, attempts>>
    /\ UNCHANGED exceptCollect

(***************************************************************************)
(* GameCacheManager: save_game running beside exists and get_cached_game   *)
(* for one cache key. Each open/write/close of a file is one step.         *)
(***************************************************************************)
\* the files save_game writes, in the order it writes them (the two debug
\* files are one entry, the optional files are left out)
GameFiles == <<"game.html", "scene_config.json", "debug_frames.json", "manifest.json">>

FileNames == {GameFiles[i] : i \in 1 .. Len(GameFiles)}

EmptyDir == [f \in FileNames |-> 0]

\* the file written after f; save_game returns after manifest.json
FileAfter(f) ==
    CASE f = "game.html" -> "scene_config.json"
      [] f = "scene_config.json" -> "debug_frames.json"
      [] f = "debug_frames.json" -> "manifest.json"
      [] f = "manifest.json" -> "idle"

GameIdle ==
    /\ game_dir = EmptyDir /\ save_pc = "idle" /\ save_id = 0
    /\ get_pc = "idle" /\ get_read = None /\ get_ret = None
    /\ exists_ret = FALSE /\ exists_seen = EmptyDir

\* save_game is called: the key's directory is made
SaveGameBegin ==
    /\ save_pc = "idle"
    /\ save_id < MaxSaves
    /\ save_id' = save_id + 1
    /\ save_pc' = GameFiles[1]
    /\ UNCHANGED <<game_dir, get_pc, get_read, get_ret, exists_ret, exists_seen>>
    /\ UNCHANGED exceptGame

\* save_game writes its next file
SaveGameWrite ==
    /\ save_pc \in FileNames
    /\ game_dir' = [game_dir EXCEPT ![save_pc] = save_id]
    /\ save_pc' = FileAfter(save_pc)
    /\ UNCHANGED <<save_id, get_pc, get_read, get_ret, exists_ret, exists_seen>>
    /\ UNCHANGED exceptGame

\* exists: (cache_path / "game.html").exists()
GameExists ==
    /\ exists_ret' = (game_dir["game.html"] # 0)
    /\ exists_seen' = game_dir
    /\ UNCHANGED <<game_dir, save_pc, save_id, get_pc, get_read, get_ret>>
    /\ UNCHANGED exceptGame

\* get_cached_game: None when game.html is missing, else game.html is read
GetCachedGameBegin ==
    /\ get_pc = "idle"
    /\ IF game_dir["game.html"] = 0
       THEN get_ret' = None /\ UNCHANGED <<get_pc, get_read>>
       ELSE /\ get_read' = [game_html |-> game_dir["game.html"]]
            /\ get_pc' = "scene_config.json"
            /\ UNCHANGED get_ret
    /\ UNCHANGED <<game_dir, save_pc, save_id, exists_ret, exists_seen>>
    /\ UNCHANGED exceptGame

\* get_cached_game opens scene_config.json: a missing file raises, the
\* except clause returns None
GetCachedGameReadConfig ==
    /\ get_pc = "scene_config.json"
    /\ IF game_dir["scene_config.json"] = 0
       THEN get_ret' = None /\ get_pc' = "idle" /\ get_read' = None
       ELSE /\ get_read' = [game_html |-> get_read.game_html,
                            scene_config |-> game_dir["scene_config.json"]]
            /\ get_pc' = "manifest.json"
            /\ UNCHANGED get_ret
    /\ UNCHANGED <<game_dir, save_pc, save_id, exists_ret, exists_seen>>
    /\ UNCHANGED exceptGame

\* get_cached_game reads the optional files and returns the dict
GetCachedGameReturn ==
    /\ get_pc = "manifest.json"
    /\ get_ret' = [game_html |-> get_read.game_html, scene_config |-> get_read.scene_config,
                   debug_frames |-> game_dir["debug_frames.json"],
                   metadata |-> game_dir["manifest.json"]]
    /\ get_pc' = "idle" /\ get_read' = None
    /\ UNCHANGED <<game_dir, save_pc, save_id, exists_ret, exists_seen>>
    /\ UNCHANGED exceptGame

(***************************************************************************)
(* CacheManager: the prompt cache (backend/cache_manager.py)               *)
(***************************************************************************)
Prompts == 1 .. MaxPrompts

\* result strings, as records so that they compare with None
PromptResults == {[text |-> "a"], [text |-> "b"], [text |-> ""]}

NoEntries == [p \in {} |-> None]

\* self.cache_data.get(prompt, {}).get('result')
CacheGet(data, prompt) ==
    IF prompt \in DOMAIN data THEN data[prompt].result ELSE None

\* self.cache_data[prompt] = {'result': result, 'timestamp': ...}; the
\* timestamp is left out
CacheSet(data, prompt, result) ==
    [p \in DOMAIN data \cup {prompt} |-> IF p = prompt THEN [result |-> result] ELSE data[p]]

\* mutant: deleting one prompt drops every entry
CacheDelete_All(data, prompt) == NoEntries

\* del self.cache_data[prompt]
CacheDelete(data, prompt) == [p \in DOMAIN data \ {prompt} |-> data[p]]

PromptIdle ==
    /\ cache_data = NoEntries /\ prompt_call = NoCall /\ prompt_ret = None
    /\ latest = [p \in Prompts |-> None] /\ before = [p \in Prompts |-> None]

PromptSet(prompt, result) ==
    /\ cache_data' = CacheSet(cache_data, prompt, result)
    /\ prompt_call' = [op |-> "set", prompt |-> prompt, result |-> result]
    /\ prompt_ret' = None
    /\ latest' = [latest EXCEPT ![prompt] = result]
    /\ before' = latest
    /\ UNCHANGED exceptPrompt

PromptGet(prompt) ==
    /\ prompt_ret' = CacheGet(cache_data, prompt)
    /\ prompt_call' = [op |-> "get", prompt |-> prompt]
    /\ before' = latest
    /\ UNCHANGED <<cache_data, latest>>
    /\ UNCHANGED exceptPrompt

PromptExists(prompt) ==
    /\ prompt_ret' = (prompt \in DOMAIN cache_data)
    /\ prompt_call' = [op |-> "exists", prompt |-> prompt]
    /\ before' = latest
    /\ UNCHANGED <<cache_data, latest>>
    /\ UNCHANGED exceptPrompt

PromptDelete(prompt) ==
    /\ IF prompt \in DOMAIN cache_data
       THEN cache_data' = CacheDelete(cache_data, prompt) /\ prompt_ret' = TRUE
       ELSE UNCHANGED cache_data /\ prompt_ret' = FALSE
    /\ prompt_call' = [op |-> "delete", prompt |-> prompt]
    /\ latest' = [latest EXCEPT ![prompt] = None]
    /\ before' = latest
    /\ UNCHANGED exceptPrompt

PromptClear ==
    /\ cache_data' = NoEntries
    /\ prompt_call' = [op |-> "clear"]
    /\ prompt_ret' = None
    /\ latest' = [p \in Prompts |-> None]
    /\ before' = latest
    /\ UNCHANGED exceptPrompt

(***************************************************************************)
(* The labelling step of _extract_horizontal_with_gaps on its own          *)
(***************************************************************************)
\* alpha values on both sides of the content threshold
LabelPixels == {<<200, 10>>, <<200, 11>>}

LabelIdle == lpc = "idle" /\ labeled_array = <<>>

LabelCall ==
    /\ sheet \in Sheets(MaxW, MaxH, MaxCells, LabelPixels)
    /\ lpc = "call" /\ labeled_array = <<>>
    /\ segpc = "idle" /\ rows = 1 /\ columns = 1
    /\ outcome = "none" /\ path = "none" /\ boxes = <<>> /\ offsets = <<>>
    /\ frames = <<>> /\ frame_width = 0 /\ frame_height = 0
    /\ labelled = <<>> /\ component_boxes = <<>> /\ detected = <<>> /\ fpc = "idle"

\* lines 301-309: threshold the alpha band and label the mask
LabelComponents ==
    /\ lpc = "call"
    /\ labeled_array' = LabeledArray(sheet)
    /\ lpc' = "done"
    /\ UNCHANGED segVars
    /\ UNCHANGED exceptLabel

(***************************************************************************)
(* GameGenerator._validate_spawn_point                                     *)
(***************************************************************************)
SpawnTolerance == 100

SpawnClearance == 60

\* mutant: the unused tolerance=50 parameter is applied to y
IsOnPlatform_Tolerance50(x, y, platform) ==
    /\ platform.x <= x /\ x <= platform.x + platform.width
    /\ (platform.y - 50) <= y /\ y <= platform.y

\* the nested is_on_platform(x, y, platform)
IsOnPlatform(x, y, platform) ==
    LET on_platform_x == platform.x <= x /\ x <= platform.x + platform.width
        on_platform_y == (platform.y - SpawnTolerance) <= y /\ y <= platform.y
    IN  on_platform_x /\ on_platform_y

\* mutant: the key is not negated, so the highest, narrowest platform sorts first
KeyLessOrEqual_Ascending(p, q) ==
    \/ p.y < q.y
    \/ p.y = q.y /\ p.width <= q.width

\* key=lambda p: (-p['y'], -p['width']), compared as Python compares tuples
KeyLessOrEqual(p, q) ==
    \/ (0 - p.y) < (0 - q.y)
    \/ (0 - p.y) = (0 - q.y) /\ (0 - p.width) <= (0 - q.width)

\* sorted(...) is stable: equal keys keep their list order
RECURSIVE InsertByKey(_, _)
InsertByKey(sorted, p) ==
    IF sorted = <<>> THEN <<p>>
    ELSE IF KeyLessOrEqual(Head(sorted), p)
         THEN <<Head(sorted)>> \o InsertByKey(Tail(sorted), p)
         ELSE <<p>> \o sorted

RECURSIVE SortedPlatforms(_, _)
SortedPlatforms(todo, acc) ==
    IF todo = <<>> THEN acc
    ELSE SortedPlatforms(Tail(todo), InsertByKey(acc, Head(todo)))

\* mutant: the clearance is added, putting the spawn below the surface
RepairedSpawn_Below(best_platform) ==
    [x |-> best_platform.x + (best_platform.width \div 3),
     y |-> best_platform.y + SpawnClearance]

\* new_spawn_x, new_spawn_y for the chosen platform
RepairedSpawn(best_platform) ==
    [x |-> best_platform.x + (best_platform.width \div 3),
     y |-> best_platform.y - SpawnClearance]

\* mutant: an empty platform list yields a default spawn
ValidatedSpawn_DefaultOnEmpty(ps, s) ==
    IF ps = <<>> THEN [x |-> 100, y |-> 700]
    ELSE IF \E i \in 1 .. Len(ps) : IsOnPlatform(s.x, s.y, ps[i]) THEN s
    ELSE RepairedSpawn(SortedPlatforms(ps, <<>>)[1])

\* mutant: the repaired y is taken relative to the spawn that was passed in
ValidatedSpawn_RelativeToSpawn(ps, s) ==
    IF ps = <<>> THEN s
    ELSE IF \E i \in 1 .. Len(ps) : IsOnPlatform(s.x, s.y, ps[i]) THEN s
    ELSE [x |-> RepairedSpawn(SortedPlatforms(ps, <<>>)[1]).x, y |-> s.y - SpawnClearance]

\* the spawn held by analysis_data when the function returns
ValidatedSpawn(ps, s) ==
    IF ps = <<>> THEN s
    ELSE IF \E i \in 1 .. Len(ps) : IsOnPlatform(s.x, s.y, ps[i]) THEN s
    ELSE RepairedSpawn(SortedPlatforms(ps, <<>>)[1])

ValidateSpawnPoint ==
    /\ vpc = "call"
    /\ spawn' = ValidatedSpawn(platforms, spawn)
    /\ vpc' = "done"
    /\ UNCHANGED <<platforms, spawn0, spawn1>>
    /\ UNCHANGED exceptSpawn

\* _validate_spawn_point called again on the analysis_data it returned
ValidateSpawnPointAgain ==
    /\ vpc = "done"
    /\ spawn1' = spawn
    /\ spawn' = ValidatedSpawn(platforms, spawn)
    /\ vpc' = "again"
    /\ UNCHANGED <<platforms, spawn0>>
    /\ UNCHANGED exceptSpawn

(***************************************************************************)
(* Inputs of _validate_spawn_point                                         *)
(***************************************************************************)
PlatformXs == {0, 50}

PlatformYs == {600, 740}

PlatformWidths == {-3, 100, 1000}

Platforms == [x : PlatformXs, y : PlatformYs, width : PlatformWidths]

SpawnXs == {-1, 0, 83, 383, 1051}

SpawnYs == {499, 500, 600, 680, 741}

PlatformLists == UNION {[1 .. n -> Platforms] : n \in 0 .. MaxPlatforms}

SpawnCall ==
    /\ platforms \in PlatformLists
    /\ spawn \in [x : SpawnXs, y : SpawnYs]
    /\ spawn0 = spawn
    /\ spawn1 = spawn
    /\ vpc = "call"

(***************************************************************************)
(* GameGenerator.analyze_walkable_platforms and _self_reflect_on_detections *)
(* A response of the vision model either holds no tool_use block or holds  *)
(* one, whose input is the structured analysis.                            *)
(***************************************************************************)
NoToolCall == [none |-> TRUE]

ResponsePlatforms ==
    {[x |-> 0, y |-> 600, width |-> 100], [x |-> 50, y |-> 740, width |-> 1000],
     [x |-> 0, y |-> 740, width |-> -3]}

ResponseSpawns ==
    {[x |-> -1, y |-> 500], [x |-> 83, y |-> 680], [x |-> 383, y |-> 600], [x |-> 0, y |-> 741]}

ResponsePlatformLists == UNION {[1 .. n -> ResponsePlatforms] : n \in 0 .. MaxPlatforms}

\* inputs of report_platform_analysis
AnalysisInputs == [platforms : ResponsePlatformLists, spawn : ResponseSpawns]

\* inputs of report_reflection_result
ReflectionInputs ==
    [decision : {"GOOD", "REFINE"}, platforms : ResponsePlatformLists, spawn : ResponseSpawns]

HasToolCall(tool_input) == tool_input # NoToolCall

Kind(tool_input) == IF HasToolCall(tool_input) THEN "tool" ELSE "none"

AnalyzeIdle ==
    /\ apc = "idle" /\ analysis_data = [platforms |-> <<>>, spawn |-> [x |-> 0, y |-> 0]]
    /\ responses = [analyze |-> <<>>, reflect |-> <<>>] /\ decision = "none"

AnalyzeCall ==
    /\ apc = "analyze" /\ analysis_data = [platforms |-> <<>>, spawn |-> [x |-> 0, y |-> 0]]
    /\ responses = [analyze |-> <<>>, reflect |-> <<>>] /\ decision = "none"

\* mutant: a retry without a tool call is followed by another retry
AfterRetry_Again(tool_input, retry_pc, next_pc) ==
    IF HasToolCall(tool_input) THEN next_pc ELSE retry_pc

\* after the retry: ValueError when tool_input is still None
AfterRetry(tool_input, retry_pc, next_pc) ==
    IF HasToolCall(tool_input) THEN next_pc ELSE "failed"

\* analysis_data after _validate_spawn_point
ValidatedAnalysis(tool_input) ==
    [platforms |-> tool_input.platforms,
     spawn |-> ValidatedSpawn(tool_input.platforms, tool_input.spawn)]

\* what _self_reflect_on_detections returns for a reflection result
Reflected(initial_analysis, reflection_result) ==
    IF reflection_result.decision = "REFINE"
    THEN [platforms |-> reflection_result.platforms, spawn |-> reflection_result.spawn]
    ELSE initial_analysis

\* the first request of analyze_walkable_platforms and its response
AnalyzeRequest ==
    /\ apc = "analyze"
    /\ \E tool_input \in AnalysisInputs \cup {NoToolCall} :
          /\ responses' = [responses EXCEPT !.analyze = Append(@, Kind(tool_input))]
          /\ IF HasToolCall(tool_input)
             THEN apc' = "reflect" /\ analysis_data' = ValidatedAnalysis(tool_input)
             ELSE apc' = "analyze_retry" /\ UNCHANGED analysis_data
    /\ UNCHANGED decision
    /\ UNCHANGED exceptAnalyze

\* the forced-tool retry of analyze_walkable_platforms and its response
AnalyzeRetry ==
    /\ apc = "analyze_retry"
    /\ \E tool_input \in AnalysisInputs \cup {NoToolCall} :
          /\ responses' = [responses EXCEPT !.analyze = Append(@, Kind(tool_input))]
          /\ apc' = AfterRetry(tool_input, "analyze_retry", "reflect")
          /\ IF HasToolCall(tool_input)
             THEN analysis_data' = ValidatedAnalysis(tool_input)
             ELSE UNCHANGED analysis_data
    /\ UNCHANGED decision
    /\ UNCHANGED exceptAnalyze

\* the first request of _self_reflect_on_detections and its response
ReflectRequest ==
    /\ apc = "reflect"
    /\ \E tool_input \in ReflectionInputs \cup {NoToolCall} :
          /\ responses' = [responses EXCEPT !.reflect = Append(@, Kind(tool_input))]
          /\ IF HasToolCall(tool_input)
             THEN /\ apc' = "returned"
                  /\ decision' = tool_input.decision
                  /\ analysis_data' = Reflected(analysis_data, tool_input)
             ELSE apc' = "reflect_retry" /\ UNCHANGED <<analysis_data, decision>>
    /\ UNCHANGED exceptAnalyze

\* the forced-tool retry of _self_reflect_on_detections and its response
ReflectRetry ==
    /\ apc = "reflect_retry"
    /\ \E tool_input \in ReflectionInputs \cup {NoToolCall} :
          /\ responses' = [responses EXCEPT !.reflect = Append(@, Kind(tool_input))]
          /\ apc' = AfterRetry(tool_input, "reflect_retry", "returned")
          /\ IF HasToolCall(tool_input)
             THEN /\ decision' = tool_input.decision
                  /\ analysis_data' = Reflected(analysis_data, tool_input)
             ELSE UNCHANGED <<analysis_data, decision>>
    /\ UNCHANGED exceptAnalyze

(***************************************************************************)
(* ComponentCacheManager: the character component cache                    *)
(***************************************************************************)
CacheRaised == [raised |-> TRUE]

\* a directory without files, and a cache directory without components
NoFiles == [name \in {} |-> None]

EmptyCache == [k \in {} |-> NoFiles]

\* the string that is hashed: "type|url" followed by "|key=value" for the
\* keyword arguments in sorted key order, here as the list of its parts
CacheString(component_type, url, kwargs) ==
    <<component_type, url>> \o kwargs

\* mutant: the keyword arguments are left out of the key
GenerateComponentKey_UrlOnly(component_type, url, kwargs) ==
    [component_type |-> component_type, hash_val |-> CacheString(component_type, url, <<>>)]

\* "<type>_<first 16 hex digits of sha256(cache_string)>"; the digest is
\* modelled as free of collisions: equal exactly when the strings are equal
GenerateComponentKey(component_type, url, kwargs) ==
    [component_type |-> component_type, hash_val |-> CacheString(component_type, url, kwargs)]

CharacterKey(character_url, num_frames) ==
    GenerateComponentKey("character", character_url, <<<<"num_frames", num_frames>>>>)

\* metadata.json (cached_at, the wall clock time, is left out)
CharacterMetadata(component_key, character_url, num_frames, sprite_config) ==
    [component_type |-> "character", component_key |-> component_key,
     url |-> character_url, num_frames |-> num_frames,
     frame_width |-> sprite_config.frame_width,
     frame_height |-> sprite_config.frame_height]

\* the files written by a save that runs to its end; debug_frames.json is
\* written only for a non-empty list
WrittenFiles(component_key, character_url, num_frames, sprite_config, processed_sprite_data_url, debug_frames) ==
    [name \in {"sprite_config.json", "processed_sprite_base64.txt", "metadata.json"}
              \cup (IF debug_frames # <<>> THEN {"debug_frames.json"} ELSE {}) |->
        CASE name = "sprite_config.json" -> sprite_config
          [] name = "processed_sprite_base64.txt" -> processed_sprite_data_url
          [] name = "debug_frames.json" -> debug_frames
          [] name = "metadata.json" ->
                CharacterMetadata(component_key, character_url, num_frames, sprite_config)]

\* files of an existing directory are overwritten by name, the others stay
Overwrite(new_files, old_files) ==
    [name \in DOMAIN new_files \cup DOMAIN old_files |->
        IF name \in DOMAIN new_files THEN new_files[name] ELSE old_files[name]]

FilesOf(dir, component_key) ==
    IF component_key \in DOMAIN dir THEN dir[component_key] ELSE NoFiles

\* the directory after component_key's files were set to files
WithComponent(dir, component_key, files) ==
    [k \in DOMAIN dir \cup {component_key} |-> IF k = component_key THEN files ELSE dir[k]]

\* the directory after rmtree of component_key
WithoutComponent(dir, component_key) ==
    [k \in DOMAIN dir \ {component_key} |-> dir[k]]

\* value returned by get_character_component on directory dir
GetCharacterComponent(dir, character_url, num_frames) ==
    LET component_key == CharacterKey(character_url, num_frames)
        files == FilesOf(dir, component_key)
    IN  IF ~({"sprite_config.json", "processed_sprite_base64.txt"} \subseteq DOMAIN files)
        THEN None
        ELSE [sprite_config |-> files["sprite_config.json"],
              processed_sprite_data_url |-> files["processed_sprite_base64.txt"],
              debug_frames |-> IF "debug_frames.json" \in DOMAIN files
                               THEN files["debug_frames.json"] ELSE <<>>,
              component_key |-> component_key,
              metadata |-> IF "metadata.json" \in DOMAIN files
                           THEN files["metadata.json"] ELSE NoFiles]

\* get_cache_stats()['character']: directories named "character_..."
CharacterCount(dir) ==
    Cardinality({k \in DOMAIN dir : k.component_type = "character"})

Urls == 1 .. MaxUrls

FrameCounts == {6, 8}

SpriteConfigs == {[frame_width |-> 32, frame_height |-> 32],
                  [frame_width |-> 64, frame_height |-> 48]}

DataUrls == {"data:image/png;base64,AAAA"}

DebugFrames == {<<>>, <<"frame0">>}

CacheIdle ==
    /\ cache_dir = EmptyCache
    /\ cache_call = NoCall
    /\ cache_ret = None
    /\ saved = [pair \in Urls \X FrameCounts |-> None]

SaveCall(url, num_frames, cfg, data, dbg) ==
    [op |-> "save", character_url |-> url, num_frames |-> num_frames,
     sprite_config |-> cfg, processed_sprite_data_url |-> data, debug_frames |-> dbg]

\* save_character_component running to its end
SaveCharacterComponent(url, num_frames, cfg, data, dbg) ==
    /\ \E component_key \in {CharacterKey(url, num_frames)} :
          /\ cache_dir' = WithComponent(cache_dir, component_key,
                              Overwrite(WrittenFiles(component_key, url, num_frames, cfg, data, dbg),
                                        FilesOf(cache_dir, component_key)))
          /\ cache_ret' = [component_key |-> component_key]
    /\ cache_call' = SaveCall(url, num_frames, cfg, data, dbg)
    /\ saved' = [saved EXCEPT ![<<url, num_frames>>] = SaveCall(url, num_frames, cfg, data, dbg)]
    /\ UNCHANGED exceptCache

\* save_character_component when a write raises: the component's directory
\* is removed and the exception is raised again
SaveCharacterComponentFails(url, num_frames, cfg, data, dbg) ==
    /\ cache_dir' = WithoutComponent(cache_dir, CharacterKey(url, num_frames))
    /\ cache_ret' = CacheRaised
    /\ cache_call' = SaveCall(url, num_frames, cfg, data, dbg)
    /\ saved' = [saved EXCEPT ![<<url, num_frames>>] = None]
    /\ UNCHANGED exceptCache

GetCharacterComponentCall(url, num_frames) ==
    /\ cache_ret' = GetCharacterComponent(cache_dir, url, num_frames)
    /\ cache_call' = [op |-> "get", character_url |-> url, num_frames |-> num_frames]
    /\ UNCHANGED <<cache_dir, saved>>
    /\ UNCHANGED exceptCache

\* clear_cache: the cache directory is removed and created again
ClearCache ==
    /\ DOMAIN cache_dir # {}
    /\ cache_dir' = EmptyCache
    /\ cache_call' = [op |-> "clear"]
    /\ cache_ret' = None
    /\ saved' = [pair \in Urls \X FrameCounts |-> None]
    /\ UNCHANGED exceptCache

(***************************************************************************)
(* Specifications                                                          *)
(***************************************************************************)
InitSegment == SegCall(Sheets(MaxW, MaxH, MaxCells, SheetPixels)) /\ SpawnIdle /\ CacheIdle /\ LabelIdle /\ AnalyzeIdle /\ RearrangeIdle /\ CollectIdle /\ GameIdle /\ PromptIdle

InitPaste ==
    /\ SegCall(Sheets(MaxPasteCells, MaxPasteCells, MaxPasteCells, PastePixels))
    /\ SpawnIdle /\ CacheIdle /\ LabelIdle /\ AnalyzeIdle /\ RearrangeIdle /\ CollectIdle /\ GameIdle /\ PromptIdle

NextSegment == ExtractFramesSmart

SpecSegment == InitSegment /\ [][NextSegment]_vars

SpecPaste == InitPaste /\ [][NextSegment]_vars

InitFilter == FilterCall /\ SpawnIdle /\ CacheIdle /\ LabelIdle /\ AnalyzeIdle /\ RearrangeIdle /\ CollectIdle /\ GameIdle /\ PromptIdle

NextFilter == FilterComponents

SpecFilter == InitFilter /\ [][NextFilter]_vars

InitSpawn == SegIdle /\ SpawnCall /\ CacheIdle /\ LabelIdle /\ AnalyzeIdle /\ RearrangeIdle /\ CollectIdle /\ GameIdle /\ PromptIdle

NextSpawn == ValidateSpawnPoint

SpecSpawn == InitSpawn /\ [][NextSpawn]_vars

NextSpawnTwice == ValidateSpawnPoint \/ ValidateSpawnPointAgain

SpecSpawnTwice == InitSpawn /\ [][NextSpawnTwice]_vars

InitAnalyze == SegIdle /\ SpawnIdle /\ CacheIdle /\ LabelIdle /\ AnalyzeCall /\ RearrangeIdle /\ CollectIdle /\ GameIdle /\ PromptIdle

NextAnalyze == AnalyzeRequest \/ AnalyzeRetry \/ ReflectRequest \/ ReflectRetry

SpecAnalyze == InitAnalyze /\ [][NextAnalyze]_vars

InitRearrange == RearrangeCall /\ SpawnIdle /\ CacheIdle /\ LabelIdle /\ AnalyzeIdle /\ CollectIdle /\ GameIdle /\ PromptIdle

NextRearrange == RearrangeToHorizontal

SpecRearrange == InitRearrange /\ [][NextRearrange]_vars

InitCollect ==
    /\ SegIdle /\ SpawnIdle /\ CacheIdle /\ LabelIdle /\ AnalyzeIdle /\ RearrangeIdle
    /\ CollectCall /\ GameIdle /\ PromptIdle

NextCollect == PlacementAttempt \/ ReturnPositions

SpecCollect == InitCollect /\ [][NextCollect]_vars

\* the interpreter keeps running the loop: a step that is possible is taken
SpecCollectFair == SpecCollect /\ WF_vars(NextCollect)

InitGame ==
    /\ SegIdle /\ SpawnIdle /\ CacheIdle /\ LabelIdle /\ AnalyzeIdle /\ RearrangeIdle
    /\ CollectIdle /\ GameIdle /\ PromptIdle

NextGame ==
    \/ SaveGameBegin \/ SaveGameWrite \/ GameExists
    \/ GetCachedGameBegin \/ GetCachedGameReadConfig \/ GetCachedGameReturn

SpecGame == InitGame /\ [][NextGame]_vars

InitPrompt ==
    /\ SegIdle /\ SpawnIdle /\ CacheIdle /\ LabelIdle /\ AnalyzeIdle /\ RearrangeIdle
    /\ CollectIdle /\ GameIdle /\ PromptIdle

NextPrompt ==
    \/ \E prompt \in Prompts, result \in PromptResults : PromptSet(prompt, result)
    \/ \E prompt \in Prompts :
          PromptGet(prompt) \/ PromptExists(prompt) \/ PromptDelete(prompt)
    \/ PromptClear

SpecPrompt == InitPrompt /\ [][NextPrompt]_vars

InitLabel == LabelCall /\ SpawnIdle /\ CacheIdle /\ AnalyzeIdle /\ RearrangeIdle /\ CollectIdle /\ GameIdle /\ PromptIdle

NextLabel == LabelComponents

SpecLabel == InitLabel /\ [][NextLabel]_vars

InitCache == SegIdle /\ SpawnIdle /\ CacheIdle /\ LabelIdle /\ AnalyzeIdle /\ RearrangeIdle /\ CollectIdle /\ GameIdle /\ PromptIdle

NextCache ==
    \/ \E url \in Urls, num_frames \in FrameCounts, cfg \in SpriteConfigs,
          data \in DataUrls, dbg \in DebugFrames :
            \/ SaveCharacterComponent(url, num_frames, cfg, data, dbg)
            \/ SaveCharacterComponentFails(url, num_frames, cfg, data, dbg)
    \/ \E url \in Urls, num_frames \in FrameCounts : GetCharacterComponentCall(url, num_frames)
    \/ ClearCache

SpecCache == InitCache /\ [][NextCache]_vars


(***************************************************************************)
(* Properties of extract_frames_smart                                      *)
(***************************************************************************)
Returned == segpc = "done" /\ outcome = "ok"

FrameIds == 1 .. Len(frames)

\* the region of canvas i that paste wrote
InPasted(i, p) ==
    /\ p[1] >= offsets[i][1] /\ p[1] < offsets[i][1] + RectW(boxes[i])
    /\ p[2] >= offsets[i][2] /\ p[2] < offsets[i][2] + RectH(boxes[i])

\* the sheet pixel that canvas position p of frame i was taken from
SourcePixel(i, p) ==
    sheet.px[<<boxes[i].left + p[1] - offsets[i][1], boxes[i].top + p[2] - offsets[i][2]>>]

Overlaps(a, b) ==
    /\ a.left < b.right /\ b.left < a.right
    /\ a.top < b.bottom /\ b.top < a.bottom

\* C1: for every image and rows >= 1, columns >= 1 the call returns a frame
\* list of exactly rows * columns frames
C1_FrameCount ==
    (segpc = "done" /\ rows >= 1 /\ columns >= 1)
        => (outcome = "ok" /\ Len(frames) = rows * columns)

\* C2: all returned frames have one width and one height, frame_width and
\* frame_height are those, and they are the maxima over the crops
C2_UniformSize ==
    Returned =>
        /\ Len(boxes) = Len(frames)
        /\ \A i \in FrameIds :
              /\ frames[i].w = frame_width /\ frames[i].h = frame_height
              /\ DOMAIN frames[i].px = Coords(frame_width, frame_height)
              /\ boxes[i].right - boxes[i].left <= frame_width
              /\ boxes[i].bottom - boxes[i].top <= frame_height
        /\ Len(frames) >= 1 =>
              /\ \E i \in FrameIds : boxes[i].right - boxes[i].left = frame_width
              /\ \E i \in FrameIds : boxes[i].bottom - boxes[i].top = frame_height

\* C2 witness: a connected-component result whose crops differ in width
C2_Witness ==
    /\ Returned /\ path = "cc"
    /\ \E i, j \in FrameIds :
          boxes[i].right - boxes[i].left # boxes[j].right - boxes[j].left

\* the sprites of a sheet: every connected component, left to right
Sprites == SortByLeft(ComponentBoxes(sheet), <<>>)

\* C3: on a single-row sheet whose sprites do not overlap horizontally,
\* frame i is taken from the sprite with the i-th smallest left edge (and
\* from no other sprite)
C3_LeftToRight ==
    (/\ Returned /\ rows = 1 /\ columns >= 1
     /\ Len(Sprites) = columns
     /\ \A i, j \in 1 .. Len(Sprites) : i < j => Sprites[i].right <= Sprites[j].left)
        => /\ Len(frames) = columns
           /\ \A i, j \in FrameIds : Overlaps(boxes[i], Sprites[j]) <=> i = j

\* C4: the crop of size w x h sits on the W x H canvas with left margin
\* floor((W-w)/2), right margin ceil((W-w)/2), top margin floor((H-h)/2),
\* bottom margin ceil((H-h)/2), inside the canvas
C4_Centering ==
    Returned =>
        \A i \in FrameIds :
            LET w == boxes[i].right - boxes[i].left
                h == boxes[i].bottom - boxes[i].top
                left_margin   == offsets[i][1]
                top_margin    == offsets[i][2]
                right_margin  == frame_width - w - left_margin
                bottom_margin == frame_height - h - top_margin
            IN  /\ 2 * left_margin <= frame_width - w
                /\ frame_width - w <= 2 * left_margin + 1
                /\ 2 * right_margin - 1 <= frame_width - w
                /\ frame_width - w <= 2 * right_margin
                /\ 2 * top_margin <= frame_height - h
                /\ frame_height - h <= 2 * top_margin + 1
                /\ 2 * bottom_margin - 1 <= frame_height - h
                /\ frame_height - h <= 2 * bottom_margin
                /\ left_margin >= 0 /\ right_margin >= 0
                /\ top_margin >= 0 /\ bottom_margin >= 0
                /\ frames[i] =
                      Paste(NewImage(frame_width, frame_height),
                            Crop(sheet, boxes[i].left, boxes[i].top,
                                 boxes[i].right, boxes[i].bottom),
                            left_margin, top_margin)

\* C4 witness: a frame whose horizontal and vertical slack are both odd
C4_Witness ==
    /\ Returned
    /\ \E i \in FrameIds :
          /\ (frame_width - (boxes[i].right - boxes[i].left)) % 2 = 1
          /\ (frame_height - (boxes[i].bottom - boxes[i].top)) % 2 = 1

\* C5: every pixel of a crop appears unchanged at its offset position on the
\* canvas, whatever its alpha, and every other canvas pixel is (0, 0, 0, 0)
C5_PixelsPreserved ==
    Returned =>
        \A i \in FrameIds :
            \A p \in DOMAIN frames[i].px :
                IF InPasted(i, p)
                THEN frames[i].px[p] = SourcePixel(i, p)
                ELSE frames[i].px[p] = Transparent

\* C6: grid extraction returns its frames in row-major order: frame
\* r * columns + c is cut from cell (r, c) alone, whether or not content is
\* connected across cells
C6_GridRowMajor ==
    (Returned /\ path \in {"grid", "fallback"}) =>
        /\ Len(frames) = rows * columns
        /\ \A r \in 0 .. rows - 1 : \A c \in 0 .. columns - 1 :
              LET cw == sheet.w \div columns
                  ch == sheet.h \div rows
                  k  == r * columns + c + 1
                  b  == boxes[k]
                  content == {p \in DOMAIN sheet.px :
                                /\ sheet.px[p][2] > 10
                                /\ p[1] >= c * cw /\ p[1] < (c + 1) * cw
                                /\ p[2] >= r * ch /\ p[2] < (r + 1) * ch}
              IN  /\ c * cw <= b.left /\ b.left < b.right /\ b.right <= (c + 1) * cw
                  /\ r * ch <= b.top /\ b.top < b.bottom /\ b.bottom <= (r + 1) * ch
                  /\ IF content = {}
                     THEN b = Rect(c * cw, r * ch, (c + 1) * cw, (r + 1) * ch)
                     ELSE /\ \A p \in content :
                                /\ b.left <= p[1] /\ p[1] < b.right
                                /\ b.top <= p[2] /\ p[2] < b.bottom
                          /\ \E p \in content : p[1] = b.left
                          /\ \E p \in content : p[1] = b.right - 1
                          /\ \E p \in content : p[2] = b.top
                          /\ \E p \in content : p[2] = b.bottom - 1
                  /\ frames[k] =
                        Paste(NewImage(frame_width, frame_height),
                              Crop(sheet, b.left, b.top, b.right, b.bottom),
                              offsets[k][1], offsets[k][2])

\* C6 witness: a 2 x 2 grid whose four cells all hold content that forms one
\* connected component across the cell boundaries
C6_Witness ==
    /\ Returned /\ path = "grid" /\ rows = 2 /\ columns = 2
    /\ Len(frames) = 4
    /\ Len(Sprites) = 1
    /\ \A k \in FrameIds :
          \E p \in ContentMask(sheet) :
              /\ boxes[k].left <= p[1] /\ p[1] < boxes[k].right
              /\ boxes[k].top <= p[2] /\ p[2] < boxes[k].bottom
    /\ \E k \in FrameIds : boxes[k].right - boxes[k].left >= 2


\* C11: whenever rows * columns = 0 the call fails with an error
C11_DegenerateFatal ==
    (segpc = "done" /\ rows * columns = 0) => outcome = "error"

Filtered == fpc = "done"

RemoveAt(s, d) == [i \in 1 .. Len(s) - 1 |-> IF i < d THEN s[i] ELSE s[i + 1]]

\* component d is a decoy of area 0.005 * A among real components of area A
IsDecoy(d) ==
    /\ d \in 1 .. Len(component_boxes)
    /\ Len(component_boxes) >= 2
    /\ component_boxes[d].area > 0
    /\ \A i \in 1 .. Len(component_boxes) :
          i # d => 5 * component_boxes[i].area = 1000 * component_boxes[d].area

\* C12: with N real components of area A and one decoy of area 0.005 * A the
\* filter drops the decoy and keeps the N others; when N is the expected
\* count the connected-component path crops exactly the N real boxes
C12_DecoyExcluded ==
    Filtered =>
        \A d \in 1 .. Len(component_boxes) :
            IsDecoy(d) =>
                /\ detected = RemoveAt(component_boxes, d)
                /\ columns = Len(component_boxes) - 1 =>
                      /\ path = "cc"
                      /\ Len(boxes) = columns
                      /\ \A i \in 1 .. columns :
                            LET b == RemoveAt(component_boxes, d)[i]
                            IN  boxes[i] = Rect(b.left, b.top, b.right, b.bottom)

\* C12 witness: a decoy between two real components, two frames expected
C12_Witness ==
    /\ Filtered /\ Len(component_boxes) = 3 /\ IsDecoy(2)
    /\ labelled # component_boxes
    /\ columns = 2 /\ path = "cc" /\ Len(boxes) = 2

\* the sheet holds only solid opaque rectangles of one size, separated by
\* fully transparent columns (component_boxes lists them left to right)
SolidRectangles ==
    /\ Len(component_boxes) >= 1
    /\ \A i \in 1 .. Len(component_boxes) :
          /\ RectW(component_boxes[i]) = RectW(component_boxes[1])
          /\ RectH(component_boxes[i]) = RectH(component_boxes[1])
          /\ \A p \in DOMAIN sheet.px :
                (/\ component_boxes[i].left <= p[1] /\ p[1] < component_boxes[i].right
                 /\ component_boxes[i].top <= p[2] /\ p[2] < component_boxes[i].bottom)
                    => sheet.px[p][2] = 255
    /\ \A i, j \in 1 .. Len(component_boxes) :
          i < j => component_boxes[i].right < component_boxes[j].left

\* C13: a single-row sheet of N solid opaque w x h rectangles separated by
\* transparent columns yields, for rows = 1 and columns = N, N frames of
\* w x h, each filled by its rectangle with no padding, left to right
C13_EndToEnd ==
    (/\ segpc = "done" /\ rows = 1 /\ columns = Len(component_boxes)
     /\ SolidRectangles)
        => /\ outcome = "ok"
           /\ Len(frames) = columns
           /\ \A i \in FrameIds :
                 /\ frames[i].w = RectW(component_boxes[1])
                 /\ frames[i].h = RectH(component_boxes[1])
                 /\ boxes[i] = Rect(component_boxes[i].left, component_boxes[i].top,
                                    component_boxes[i].right, component_boxes[i].bottom)
                 /\ \A p \in DOMAIN frames[i].px : frames[i].px[p][2] = 255
\* the returned tuple and the rectangles behind it equal those of result g
SameResult(g) ==
    /\ outcome = g.outcome /\ frames = g.frames
    /\ frame_width = g.fw /\ frame_height = g.fh
    /\ boxes = g.boxes /\ offsets = g.offsets

\* C14: character components are cached per (character_url, num_frames):
\* entries saved under different num_frames exist side by side, one
\* character component per saved pair; a get returns the entry last saved
\* with the same url and the same num_frames, and None for a pair that was
\* never saved
C14_KeyedPerFrameCount ==
    /\ Cardinality({k \in DOMAIN cache_dir : k.component_type = "character"})
          = Cardinality({pair \in DOMAIN saved : saved[pair] # None})
    /\ cache_call.op = "get" =>
          LET entry == saved[<<cache_call.character_url, cache_call.num_frames>>]
          IN  IF entry = None THEN cache_ret = None
              ELSE /\ cache_ret # None
                   /\ cache_ret.sprite_config = entry.sprite_config
                   /\ cache_ret.processed_sprite_data_url = entry.processed_sprite_data_url
                   /\ cache_ret.metadata.num_frames = cache_call.num_frames
                   /\ cache_ret.metadata.url = cache_call.character_url

\* C14 witness: one url saved with 8 frames and with 6 frames under different
\* configs and never under the other url, two character components in the
\* cache, and a get with 8 frames returning the config saved with 8 frames
C14_Witness ==
    /\ cache_call = [op |-> "get", character_url |-> 1, num_frames |-> 8]
    /\ saved[<<1, 8>>] # None /\ saved[<<1, 6>>] # None
    /\ saved[<<2, 8>>] = None /\ saved[<<2, 6>>] = None
    /\ saved[<<1, 8>>].sprite_config # saved[<<1, 6>>].sprite_config
    /\ Cardinality(DOMAIN cache_dir) = 2
    /\ cache_ret # None
    /\ cache_ret.sprite_config = saved[<<1, 8>>].sprite_config

\* C15: on the single-row path the connected-component result is used iff
\* the filtered count equals columns; on a mismatch the call does not fail
\* for that reason but returns exactly what grid extraction with rows = 1
\* and the same columns gives
C15_MismatchFallsBack ==
    (segpc = "done" /\ rows = 1) =>
        /\ path \in {"cc", "fallback"}
        /\ path = "cc" <=> Len(detected) = columns
        /\ path = "cc" =>
              /\ outcome = "ok" /\ Len(frames) = Len(detected)
              /\ \A i \in FrameIds :
                    boxes[i] = Rect(detected[i].left, detected[i].top,
                                    detected[i].right, detected[i].bottom)
        /\ path = "fallback" =>
              \E g \in {ExtractGridBased(sheet, 1, columns, "fallback")} : SameResult(g)

\* C15 witness: one sprite detected, two expected, the grid result returned
C15_Witness ==
    /\ Returned /\ rows = 1 /\ columns = 2
    /\ Len(detected) = 1 /\ path = "fallback" /\ Len(frames) = 2

\* C16: with rows > 1 connected components are never computed and the
\* result is that of _extract_grid_based(image, rows, columns)
C16_MultiRowGrid ==
    (segpc = "done" /\ rows > 1) =>
        /\ path = "grid"
        /\ labelled = <<>> /\ component_boxes = <<>> /\ detected = <<>>
        /\ \E g \in {ExtractGridBased(sheet, rows, columns, "grid")} : SameResult(g)

\* C16 witness: a two-row call on a sheet whose surviving components number
\* exactly rows * columns, so the component path would have matched
C16_Witness ==
    /\ Returned /\ rows = 2 /\ path = "grid"
    /\ Len(DetectedSprites(sheet)) = rows * columns
\* C17: the filter drops a component iff its area < 0.01 * max_area; a
\* component at or above the threshold is kept, in unchanged order
C17_NoiseThreshold ==
    (Filtered /\ Len(component_boxes) > 0) =>
        LET max_area == SetMax({component_boxes[i].area : i \in 1 .. Len(component_boxes)})
            AtOrAbove(b) == 100 * b.area >= max_area
        IN  detected = SelectSeq(component_boxes, AtOrAbove)

\* C18: every component box has left < right, top < bottom and
\* area = (bottom - top) * (right - left)
C18_BoxInvariant ==
    segpc = "done" =>
        \A i \in 1 .. Len(labelled) :
            /\ labelled[i].left < labelled[i].right
            /\ labelled[i].top < labelled[i].bottom
            /\ labelled[i].area =
                  (labelled[i].bottom - labelled[i].top)
                      * (labelled[i].right - labelled[i].left)

GridReturned == Returned /\ path \in {"grid", "fallback"}

CellW == sheet.w \div columns

CellH == sheet.h \div rows

\* the cell that frame k belongs to, as <<row, column>>
CellOf(k) == <<(k - 1) \div columns, (k - 1) % columns>>

InCell(p, k) ==
    /\ p[1] >= CellOf(k)[2] * CellW /\ p[1] < (CellOf(k)[2] + 1) * CellW
    /\ p[2] >= CellOf(k)[1] * CellH /\ p[2] < (CellOf(k)[1] + 1) * CellH

\* pixels right of the last column of cells or below the last row of cells
Remainder == {p \in DOMAIN sheet.px : p[1] >= columns * CellW \/ p[2] >= rows * CellH}

\* the sheet with every remainder pixel replaced by pixel v
WithRemainder(v) ==
    [sheet EXCEPT !.px = [p \in DOMAIN sheet.px |-> IF p \in Remainder THEN v ELSE sheet.px[p]]]

\* C19: cells are width // columns by height // rows, cell (r, c) covers
\* exactly its rectangle, cells are disjoint, and the remainder pixels
\* belong to no cell and influence no frame
C19_GridCells ==
    GridReturned =>
        /\ Len(boxes) = rows * columns
        /\ \A k \in 1 .. Len(boxes) :
              /\ \A p \in DOMAIN sheet.px :
                    (/\ boxes[k].left <= p[1] /\ p[1] < boxes[k].right
                     /\ boxes[k].top <= p[2] /\ p[2] < boxes[k].bottom)
                        => (InCell(p, k) /\ p \notin Remainder)
              /\ \A p \in DOMAIN sheet.px :
                    (InCell(p, k) /\ sheet.px[p][2] > 10) =>
                        /\ boxes[k].left <= p[1] /\ p[1] < boxes[k].right
                        /\ boxes[k].top <= p[2] /\ p[2] < boxes[k].bottom
              /\ (\A p \in DOMAIN sheet.px : InCell(p, k) => sheet.px[p][2] <= 10) =>
                    (RectW(boxes[k]) = CellW /\ RectH(boxes[k]) = CellH)
              /\ \A j \in 1 .. Len(boxes) : j # k => ~Overlaps(boxes[j], boxes[k])
        /\ \A v \in {Transparent, Opaque} :
              Remainder = {} \/ \E g \in {ExtractGridBased(WithRemainder(v), rows, columns, path)} :
                  SameResult(g)

\* C19 witness: a grid whose remainder column and remainder row hold content
C19_Witness ==
    /\ GridReturned /\ rows = 2 /\ columns = 2
    /\ \E p \in Remainder : p[1] >= columns * CellW /\ sheet.px[p][2] > 10
    /\ \E p \in Remainder : p[2] >= rows * CellH /\ sheet.px[p][2] > 10

\* frame k's cell holds no pixel of alpha > 10
EmptyCell(k) == \A p \in DOMAIN sheet.px : InCell(p, k) => sheet.px[p][2] <= 10

\* C20: a cell with no pixel of alpha > 10 raises nothing: its region is the
\* full cell, it yields a frame, its cell size counts in the maxima, and
\* every other cell still yields its frame
C20_EmptyCellKept ==
    (segpc = "done" /\ path \in {"grid", "fallback"} /\ rows >= 1 /\ columns >= 1
     /\ CellW >= 1 /\ CellH >= 1)
        => /\ outcome = "ok"
           /\ Len(frames) = rows * columns
           /\ \A k \in FrameIds :
                 EmptyCell(k) =>
                     /\ boxes[k] = Rect(CellOf(k)[2] * CellW, CellOf(k)[1] * CellH,
                                        (CellOf(k)[2] + 1) * CellW, (CellOf(k)[1] + 1) * CellH)
                     /\ frame_width >= CellW /\ frame_height >= CellH
                     /\ frames[k].w = frame_width /\ frames[k].h = frame_height

\* C20 witness: an empty cell holding a faint pixel (alpha 10) sets the
\* frame width, next to a cell whose content is narrower than the cell
C20_Witness ==
    /\ GridReturned /\ Len(frames) >= 2
    /\ \E k, j \in FrameIds :
          /\ EmptyCell(k)
          /\ \E p \in DOMAIN sheet.px : InCell(p, k) /\ sheet.px[p][2] = 10
          /\ ~EmptyCell(j) /\ RectW(boxes[j]) < CellW
          /\ frame_width = CellW

\* content pixels by the threshold itself
IsContent(p) == sheet.px[p][2] > 10

\* horizontal, vertical or diagonal neighbours
Neighbours(p, q) ==
    /\ p # q
    /\ p[1] - q[1] < 2 /\ q[1] - p[1] < 2
    /\ p[2] - q[2] < 2 /\ q[2] - p[2] < 2

\* the content pixels linked to a pixel of S by a chain of neighbouring
\* content pixels
RECURSIVE Chained(_)
Chained(S) ==
    LET more == {q \in DOMAIN sheet.px : IsContent(q) /\ \E p \in S : Neighbours(p, q)}
    IN  IF more \subseteq S THEN S ELSE Chained(S \cup more)

\* C21: labelling is 8-connected over alpha > 10: neighbouring content pixels
\* share a label, two content pixels share a label only if a chain of
\* neighbouring content pixels links them, and pixels with alpha <= 10
\* carry no label
C21_EightConnected ==
    lpc = "done" =>
        \A p \in DOMAIN sheet.px :
            IF IsContent(p)
            THEN /\ labeled_array[p] >= 1
                 /\ \A q \in DOMAIN sheet.px :
                       (IsContent(q) /\ Neighbours(p, q)) => labeled_array[q] = labeled_array[p]
                 /\ \A q \in DOMAIN sheet.px :
                       (IsContent(q) /\ labeled_array[q] = labeled_array[p])
                           => q \in Chained({p})
            ELSE labeled_array[p] = 0

\* C21 witness: two content pixels that touch only at a corner, both pixels
\* beside them at alpha 10, carry one label while another component carries
\* a second label
C21_Witness ==
    /\ lpc = "done"
    /\ \E p, q \in DOMAIN sheet.px :
          /\ q = <<p[1] + 1, p[2] + 1>>
          /\ IsContent(p) /\ IsContent(q)
          /\ sheet.px[<<p[1] + 1, p[2]>>][2] = 10
          /\ sheet.px[<<p[1], p[2] + 1>>][2] = 10
          /\ labeled_array[p] = labeled_array[q]
    /\ \E r \in DOMAIN sheet.px : labeled_array[r] = 2

\* C25: the noise filter never removes the largest component: when there is
\* at least one component the filtered list is non-empty and holds every
\* component whose area equals max_area
C25_LargestKept ==
    (Filtered /\ Len(component_boxes) > 0) =>
        /\ Len(detected) > 0
        /\ \A i \in 1 .. Len(component_boxes) :
              (\A j \in 1 .. Len(component_boxes) :
                   component_boxes[j].area <= component_boxes[i].area)
                  => \E k \in 1 .. Len(detected) : detected[k] = component_boxes[i]

(***************************************************************************)
(* Properties of _validate_spawn_point                                     *)
(***************************************************************************)
Validated == vpc = "done"

PlatformIds == 1 .. Len(platforms)

\* the on-platform predicate as the specification words it
SitsOn(s, P) ==
    /\ P.x <= s.x /\ s.x <= P.x + P.width
    /\ P.y - 100 <= s.y /\ s.y <= P.y

\* C7 as claimed: after validation the spawn sits on some platform, for any
\* platform list and spawn
C7_SpawnOnPlatformAlways ==
    Validated => \E i \in PlatformIds : SitsOn(spawn, platforms[i])

\* C7 as amended: after validation of a non-empty platform list whose
\* platforms all have width >= 0, the spawn sits on some platform
C7_SpawnOnPlatform ==
    (/\ Validated /\ platforms # <<>>
     /\ \A i \in PlatformIds : platforms[i].width >= 0)
        => \E i \in PlatformIds : SitsOn(spawn, platforms[i])

\* C7 witness: an off-platform spawn was moved onto a platform
C7_Witness ==
    /\ Validated /\ Len(platforms) = 2
    /\ \A i \in PlatformIds : platforms[i].width >= 0 /\ ~SitsOn(spawn0, platforms[i])
    /\ spawn # spawn0

\* C8: a spawn that already sits on some platform is returned with the same
\* x and y
C8_ValidSpawnUnchanged ==
    (Validated /\ \E i \in PlatformIds : SitsOn(spawn0, platforms[i]))
        => (spawn.x = spawn0.x /\ spawn.y = spawn0.y)

\* C8 witness: the spawn sits exactly 100px above the second platform only,
\* and the first platform is the one a repair would pick
C8_Witness ==
    /\ Validated /\ Len(platforms) = 2
    /\ ~SitsOn(spawn0, platforms[1]) /\ SitsOn(spawn0, platforms[2])
    /\ spawn0.y = platforms[2].y - 100
    /\ platforms[1].y > platforms[2].y
    /\ spawn = spawn0

\* the platform with the largest y and, among those, the largest width
IsBest(P) ==
    \A i \in PlatformIds :
        \/ platforms[i].y < P.y
        \/ platforms[i].y = P.y /\ platforms[i].width <= P.width

Permutations(n) == {f \in [1 .. n -> 1 .. n] : \A i, j \in 1 .. n : f[i] = f[j] => i = j}

Permuted(f) == [i \in PlatformIds |-> platforms[f[i]]]

DistinctKeys ==
    \A i, j \in PlatformIds :
        (platforms[i].y = platforms[j].y /\ platforms[i].width = platforms[j].width) => i = j

\* C9: a spawn on no platform of a non-empty list is moved to
\* (best.x + best.width // 3, best.y - 60) for the lowest, then widest
\* platform; with platforms y=740,width=1000 and y=600,width=100 that is
\* (x + 333, 680); the result is the same for every order of the list when
\* the (y, width) pairs are distinct
C9_RepairToBest ==
    (/\ Validated /\ platforms # <<>>
     /\ \A i \in PlatformIds : ~SitsOn(spawn0, platforms[i]))
        => /\ \E i \in PlatformIds :
                 /\ IsBest(platforms[i])
                 /\ spawn.x = platforms[i].x + (platforms[i].width \div 3)
                 /\ spawn.y = platforms[i].y - 60
           /\ \A i, j \in PlatformIds :
                 (/\ Len(platforms) = 2
                  /\ platforms[i].y = 740 /\ platforms[i].width = 1000
                  /\ platforms[j].y = 600 /\ platforms[j].width = 100)
                     => (spawn.x = platforms[i].x + 333 /\ spawn.y = 680)
           /\ DistinctKeys =>
                 \A f \in Permutations(Len(platforms)) :
                     ValidatedSpawn(Permuted(f), spawn0) = spawn

\* C9 witness: the lower, wider platform comes second in the list and the
\* off-platform spawn is moved above it
C9_Witness ==
    /\ Validated /\ Len(platforms) = 2
    /\ platforms[1].y = 600 /\ platforms[1].width = 100
    /\ platforms[2].y = 740 /\ platforms[2].width = 1000
    /\ \A i \in PlatformIds : ~SitsOn(spawn0, platforms[i])
    /\ spawn = [x |-> platforms[2].x + 333, y |-> 680]

\* C10: with an empty platform list the spawn is returned unchanged
C10_EmptyListUnchanged ==
    (Validated /\ platforms = <<>>) => spawn = spawn0

\* C10 witness: a call with no platforms has returned
C10_Witness ==
    /\ Validated /\ platforms = <<>> /\ spawn = spawn0
    /\ spawn0 = [x |-> 1051, y |-> 741]

\* C22: _validate_spawn_point is idempotent: a second call on the returned
\* analysis leaves the spawn as the first call returned it, also when the
\* first call repaired it
C22_Idempotent == vpc = "again" => spawn = spawn1

\* C22 witness: the first call repaired the spawn onto a platform of
\* negative width, where it lies on no platform, and the second call ran
C22_Witness ==
    /\ vpc = "again"
    /\ spawn1 # spawn0
    /\ \A i \in 1 .. Len(platforms) :
          ~(/\ platforms[i].x <= spawn1.x /\ spawn1.x <= platforms[i].x + platforms[i].width
            /\ platforms[i].y - 100 <= spawn1.y /\ spawn1.y <= platforms[i].y)

(***************************************************************************)
(* Properties of analyze_walkable_platforms                                *)
(***************************************************************************)
\* C23: the spawn of the returned analysis lies on a returned platform
\* whenever the returned platform list is non-empty, also after a REFINE
C23_ReturnedSpawnOnPlatform ==
    (apc = "returned" /\ analysis_data.platforms # <<>>) =>
        \E i \in 1 .. Len(analysis_data.platforms) :
            LET P == analysis_data.platforms[i]
            IN  /\ P.x <= analysis_data.spawn.x /\ analysis_data.spawn.x <= P.x + P.width
                /\ P.y - 100 <= analysis_data.spawn.y /\ analysis_data.spawn.y <= P.y

\* C26: per step at most two requests are sent: a retry only after a first
\* response without a tool call, failure only after two responses without a
\* tool call, and a response with a tool call ends the step
C26_BoundedReprompt ==
    LET Accepted(rs) == rs \in {<<"tool">>, <<"none", "tool">>}
    IN  /\ Len(responses.analyze) <= 2 /\ Len(responses.reflect) <= 2
        /\ apc = "analyze" => (responses.analyze = <<>> /\ responses.reflect = <<>>)
        /\ apc = "analyze_retry" => (responses.analyze = <<"none">> /\ responses.reflect = <<>>)
        /\ apc = "reflect" => (Accepted(responses.analyze) /\ responses.reflect = <<>>)
        /\ apc = "reflect_retry" =>
              (Accepted(responses.analyze) /\ responses.reflect = <<"none">>)
        /\ apc = "returned" => (Accepted(responses.analyze) /\ Accepted(responses.reflect))
        /\ apc = "failed" =>
              \/ responses.analyze = <<"none", "none">> /\ responses.reflect = <<>>
              \/ Accepted(responses.analyze) /\ responses.reflect = <<"none", "none">>

\* C26 witness: the analysis was accepted on its retry and the reflection
\* failed after its retry: four requests in all, two per step
C26_Witness ==
    /\ apc = "failed"
    /\ responses.analyze = <<"none", "tool">>
    /\ responses.reflect = <<"none", "none">>

(***************************************************************************)
(* Properties of rearrange_to_horizontal                                   *)
(***************************************************************************)
\* C24: the reported layout matches the written sheet: columns equals the
\* number of frames placed and sheet width = frame_width * columns, for
\* every layout_info
C24_LayoutMatchesSheet ==
    rpc = "done" =>
        /\ rearranged_info.columns = Len(frames)
        /\ horizontal_sheet.w = rearranged_info.frame_width * rearranged_info.columns

(***************************************************************************)
(* Properties of generate_collectible_positions                            *)
(***************************************************************************)
\* C27: every position sits on top of an input platform P with
\* P.width >= 60: P.x + 30 <= x <= P.x + P.width - 30 and y = P.y - 20, and
\* any two positions are at Euclidean distance >= min_spacing
C27_OnPlatformAndSpaced ==
    /\ \A i \in 1 .. Len(collectible_positions) :
          \E k \in 1 .. Len(level_platforms) :
              LET P == level_platforms[k]
              IN  /\ P.width >= 60
                  /\ P.x + 30 <= collectible_positions[i].x
                  /\ collectible_positions[i].x <= P.x + P.width - 30
                  /\ collectible_positions[i].y = P.y - 20
    /\ \A i, j \in 1 .. Len(collectible_positions) :
          i # j =>
              LET dx == collectible_positions[i].x - collectible_positions[j].x
                  dy == collectible_positions[i].y - collectible_positions[j].y
              IN  dx * dx + dy * dy >= min_spacing * min_spacing

\* C27 witness: two positions returned on different platforms at distance
\* exactly min_spacing = 5
C27_Witness ==
    /\ gpc = "done" /\ min_spacing = 5
    /\ Len(collectible_positions) = 2
    /\ collectible_positions[1].y # collectible_positions[2].y
    /\ (collectible_positions[1].x - collectible_positions[2].x)
           * (collectible_positions[1].x - collectible_positions[2].x) = 9

\* C28: the call terminates: the loop runs at most num_collectibles * 10
\* iterations whatever is drawn, and at most num_collectibles positions
\* are returned
C28_Terminates ==
    /\ [](attempts <= num_collectibles * 10
            /\ Len(collectible_positions) <= num_collectibles)
    /\ <>(gpc = "done")

\* C28 witness: every platform is narrower than 60, all num_collectibles * 10
\* attempts were used up, and the call returned without a position
C28_Witness ==
    /\ gpc = "done" /\ num_collectibles = 2
    /\ attempts = 20 /\ collectible_positions = <<>>
    /\ \A k \in 1 .. Len(level_platforms) : level_platforms[k].width < 60

(***************************************************************************)
(* Properties of GameCacheManager and CacheManager                         *)
(***************************************************************************)
\* C29: exists returns True only when the whole entry has been written by
\* one save_game call, and get_cached_game returns None or a game_html and
\* scene_config written by the same save_game call
C29_NoIncompleteEntry ==
    /\ exists_ret =>
          \A f \in {"game.html", "scene_config.json", "debug_frames.json", "manifest.json"} :
              exists_seen[f] # 0 /\ exists_seen[f] = exists_seen["game.html"]
    /\ get_ret # None => get_ret.game_html = get_ret.scene_config

\* C30: get returns the result of the latest set not followed by delete or
\* clear and None otherwise, exists is true exactly then, and delete
\* returns True iff the prompt was present and changes no other entry
C30_LatestSet ==
    /\ \A p \in DOMAIN latest :
          IF latest[p] = None THEN p \notin DOMAIN cache_data
          ELSE p \in DOMAIN cache_data /\ cache_data[p].result = latest[p]
    /\ prompt_call.op = "get" => prompt_ret = latest[prompt_call.prompt]
    /\ prompt_call.op = "exists" => (prompt_ret <=> latest[prompt_call.prompt] # None)
    /\ prompt_call.op = "delete" =>
          /\ prompt_ret <=> before[prompt_call.prompt] # None
          /\ \A q \in DOMAIN latest :
                q # prompt_call.prompt =>
                    IF before[q] = None THEN q \notin DOMAIN cache_data
                    ELSE q \in DOMAIN cache_data /\ cache_data[q].result = before[q]

\* C30 witness: a delete of a present prompt returned True while the other
\* prompt, set twice, keeps the result of its second set
C30_Witness ==
    /\ prompt_call = [op |-> "delete", prompt |-> 1]
    /\ prompt_ret = TRUE
    /\ before[1] # None /\ latest[1] = None
    /\ 2 \in DOMAIN cache_data /\ cache_data[2].result = [text |-> "b"]
    /\ 1 \notin DOMAIN cache_data
====
